---- MODULE Spec2Model ----
(***************************************************************************)
(* rust-todo-cli: the in-memory TodoList (src/src/todo_list.rs), its Task  *)
(* (src/src/task.rs), the JSON persistence (src/src/storage.rs) and the    *)
(* commands of the tool (src/src/main.rs).                                 *)
(*                                                                         *)
(* Rust values are modelled as follows.  Option<T> is a sequence of length *)
(* at most one (None = <<>>, Some(x) = <<x>>); a Result is a record with a *)
(* field per kind of payload (ok tells Ok from Err); an error is a record  *)
(* of its kind, its text and the id it carries; a DateTime<Utc> is an      *)
(* integer instant; a Vec<T> is a sequence.                                *)
(***************************************************************************)
EXTENDS Integers, Sequences, FiniteSets, TLC

\* ------------------------------------------------------------- bounds
\* add_task is offered while next_id <= MaxId (next_id is a u32; the model
\* stays far below u32::MAX, where `next_id += 1` would overflow).
MaxId == 3
\* The same, in the runs that save and load tasks with and without a due date.
MaxRoundTripId == 2

\* ------------------------------------------------------ input domains
Ids == 1..(MaxId + 1)
\* The instants the clock shows (Utc::now()) and due dates name.
Instants == {0, 1}

\* ------------------------------------------------- Rust value shapes
None == <<>>
Some(x) == <<x>>
IsSome(o) == Len(o) = 1
Unwrap(o) == o[1]

NoError == [kind |-> "", text |-> "", id |-> 0]
NoList == [tasks |-> <<>>, next_id |-> 0]
\* Ok(()), Ok(id), Ok(tasks), Ok(todo_list), Err(e)
OkUnit == [ok |-> TRUE, id |-> 0, tasks |-> <<>>, list |-> NoList, err |-> NoError]
OkId(id) == [OkUnit EXCEPT !.id = id]
OkTasks(tasks) == [OkUnit EXCEPT !.tasks = tasks]
OkList(list) == [OkUnit EXCEPT !.list = list]
Err(e) == [OkUnit EXCEPT !.ok = FALSE, !.err = e]
IsOk(r) == r.ok
IsErr(r) == ~r.ok

\* ----------------------------------------------------------- task.rs
\* enum Priority { High, Medium, Low }
Priorities == {"High", "Medium", "Low"}

\* The (title, priority, due_date) arguments add_task is called with.
AddInputs ==
    {<<"a", "Low", None>>, <<"b", "High", Some(0)>>, <<"c", "Medium", Some(1)>>}
\* The same, in the runs that also save and load.
StoredInputs == {<<"b", "High", Some(0)>>}
\* A task without a due date and a task with one, for the JSON round trip.
RoundTripInputs == {<<"a", "Low", None>>, <<"c", "Medium", Some(1)>>}

\* Task::new: completed starts false, created_at is the clock reading.
Task_new(id, title, priority, due_date, clock) ==
    [id |-> id, title |-> title, completed |-> FALSE, priority |-> priority,
     created_at |-> clock, due_date |-> due_date]

\* Task::complete: self.completed = true.
Task_complete_noop(task) == task
Task_complete(task) == [task EXCEPT !.completed = TRUE]

\* Task::is_overdue: a due date is set, the task is pending, now > due.
Task_is_overdue_at_due(task, clock) ==
    IF IsSome(task.due_date)
    THEN ~task.completed /\ clock >= Unwrap(task.due_date)
    ELSE FALSE
Task_is_overdue(task, clock) ==
    IF IsSome(task.due_date)
    THEN ~task.completed /\ clock > Unwrap(task.due_date)
    ELSE FALSE

\* ------------------------------------------------------ todo_list.rs
\* iter().filter(p).collect() keeps the elements satisfying p, in order: it
\* is SelectSeq.  iter().find(p) / iter_mut().find(p) yields the first element
\* satisfying p: FirstIndex is its position, 0 when there is none.
FirstIndex(s, id) ==
    LET hits == {i \in 1..Len(s) : s[i].id = id}
    IN IF hits = {} THEN 0 ELSE CHOOSE i \in hits : \A j \in hits : i <= j

\* TodoList::new
TodoList_new == [tasks |-> <<>>, next_id |-> 1]

\* TodoList::add_task: the new list and the id returned.
add_task_no_increment(self, title, priority, due_date, clock) ==
    [self |-> [self EXCEPT !.tasks =
                   Append(@, Task_new(self.next_id, title, priority, due_date, clock))],
     ret |-> self.next_id]
add_task(self, title, priority, due_date, clock) ==
    LET id == self.next_id
        task == Task_new(id, title, priority, due_date, clock)
    IN [self |-> [tasks |-> Append(self.tasks, task), next_id |-> self.next_id + 1],
        ret |-> id]

\* TodoList::list_tasks
list_tasks(self) == self.tasks

\* TodoList::list_pending_tasks
list_pending_tasks_all(self) == self.tasks
list_pending_tasks(self) ==
    LET pending(task) == ~task.completed IN SelectSeq(self.tasks, pending)

\* TodoList::list_completed_tasks
list_completed_tasks(self) ==
    LET done(task) == task.completed IN SelectSeq(self.tasks, done)

\* TodoList::find_task (and find_task_mut): the first task with the id.
find_task(self, id) ==
    LET i == FirstIndex(self.tasks, id)
    IN IF i = 0 THEN None ELSE Some(self.tasks[i])

\* error.rs, TodoError::TaskNotFound(u32)
TaskNotFound(id) == [kind |-> "TaskNotFound", text |-> "", id |-> id]
\* error.rs, TodoError::IoError and TodoError::SerdeError
IoError == [kind |-> "IoError", text |-> "", id |-> 0]
SerdeError == [kind |-> "SerdeError", text |-> "", id |-> 0]

\* format!("Task with id {} not found", id): the message of the String error.
NotFoundMessage(id) == [kind |-> "String", text |-> "Task with id {} not found", id |-> id]

\* TodoList::complete_task: Result<(), String>
complete_task_toggle(self, id) ==
    LET i == FirstIndex(self.tasks, id)
    IN IF i # 0
       THEN [self |-> [self EXCEPT !.tasks[i].completed = ~self.tasks[i].completed],
             ret |-> OkUnit]
       ELSE [self |-> self, ret |-> Err(NotFoundMessage(id))]
complete_task(self, id) ==
    LET i == FirstIndex(self.tasks, id)
    IN IF i # 0
       THEN [self |-> [self EXCEPT !.tasks[i] = Task_complete(@)], ret |-> OkUnit]
       ELSE [self |-> self, ret |-> Err(NotFoundMessage(id))]

\* TodoList::delete_task: Result<(), String>
delete_task_rewind(self, id) ==
    LET other(task) == task.id # id
        kept == SelectSeq(self.tasks, other)
    IN IF Len(kept) < Len(self.tasks)
       THEN [self |-> [tasks |-> kept, next_id |-> id], ret |-> OkUnit]
       ELSE [self |-> self, ret |-> Err(NotFoundMessage(id))]
delete_task_truncate(self, id) ==
    LET before(task) == task.id < id
        kept == SelectSeq(self.tasks, before)
    IN IF Len(kept) < Len(self.tasks)
       THEN [self |-> [self EXCEPT !.tasks = kept], ret |-> OkUnit]
       ELSE [self |-> self, ret |-> Err(NotFoundMessage(id))]
delete_task(self, id) ==
    LET original_len == Len(self.tasks)
        other(task) == task.id # id
        kept == SelectSeq(self.tasks, other)
    IN IF Len(kept) < original_len
       THEN [self |-> [self EXCEPT !.tasks = kept], ret |-> OkUnit]
       ELSE [self |-> [self EXCEPT !.tasks = kept], ret |-> Err(NotFoundMessage(id))]

\* TodoList::len, TodoList::is_empty
len(self) == Len(self.tasks)
is_empty(self) == self.tasks = <<>>

\* The rank the comparator of tasks_by_priority gives a priority.
priority_order_swapped(p) == IF p = "High" THEN 0 ELSE IF p = "Medium" THEN 2 ELSE 1
priority_order(p) == IF p = "High" THEN 0 ELSE IF p = "Medium" THEN 1 ELSE 2

\* slice::sort_by is a stable sort; for short slices it is an insertion
\* sort: each element moves left past the elements that compare Greater.
RECURSIVE insert_sorted(_, _)
insert_sorted(sorted, task) ==
    IF sorted = <<>> THEN <<task>>
    ELSE LET last_ == sorted[Len(sorted)]
         IN IF priority_order(last_.priority) > priority_order(task.priority)
            THEN Append(insert_sorted(SubSeq(sorted, 1, Len(sorted) - 1), task), last_)
            ELSE Append(sorted, task)

RECURSIVE sort_by(_)
sort_by(s) ==
    IF s = <<>> THEN <<>>
    ELSE insert_sorted(sort_by(SubSeq(s, 1, Len(s) - 1)), s[Len(s)])

\* TodoList::tasks_by_priority
tasks_by_priority(self) == sort_by(self.tasks)

\* TodoList::overdue_tasks
overdue_tasks(self, clock) ==
    LET overdue(task) == Task_is_overdue(task, clock) IN SelectSeq(self.tasks, overdue)

\* -------------------------------------------------------- storage.rs
\* The serde_json text is modelled as its sequence of top-level values and runs
\* of whitespace: the empty sequence is the empty text, <<Whitespace>> is a text
\* of whitespace only, <<JObj(d)>> is one JSON object, <<Truncated>> is a text
\* cut short by a failed write.
JNull == <<"null">>
JNum(n) == <<"num", n>>
JStr(s) == <<"str", s>>
JBool(b) == <<"bool", b>>
JObj(fields) == <<"obj", fields>>
Truncated == <<"trunc">>
Whitespace == <<"ws">>

\* str::trim, and the whitespace serde_json skips around a value.
Trim(content) ==
    LET visible(v) == v # Whitespace IN SelectSeq(content, visible)

\* chrono's Serialize for DateTime<Utc>: an RFC 3339 string of the instant.
Rfc3339(t) == <<"rfc3339", t>>
ParseRfc3339(s) == s[2]

\* #[derive(Serialize)] for Task
TaskToJsonSkipDue(task) ==
    [id |-> JNum(task.id),
     title |-> JStr(task.title),
     completed |-> JBool(task.completed),
     priority |-> JStr(task.priority),
     created_at |-> JStr(Rfc3339(task.created_at)),
     due_date |-> JNull]
TaskToJson(task) ==
    [id |-> JNum(task.id),
     title |-> JStr(task.title),
     completed |-> JBool(task.completed),
     priority |-> JStr(task.priority),
     created_at |-> JStr(Rfc3339(task.created_at)),
     due_date |-> IF IsSome(task.due_date)
                  THEN JStr(Rfc3339(Unwrap(task.due_date)))
                  ELSE JNull]

\* #[derive(Deserialize)] for Task
TaskFromJsonPending(j) ==
    [id |-> j.id[2],
     title |-> j.title[2],
     completed |-> FALSE,
     priority |-> j.priority[2],
     created_at |-> ParseRfc3339(j.created_at[2]),
     due_date |-> IF j.due_date = JNull
                  THEN None
                  ELSE Some(ParseRfc3339(j.due_date[2]))]
TaskFromJson(j) ==
    [id |-> j.id[2],
     title |-> j.title[2],
     completed |-> j.completed[2],
     priority |-> j.priority[2],
     created_at |-> ParseRfc3339(j.created_at[2]),
     due_date |-> IF j.due_date = JNull
                  THEN None
                  ELSE Some(ParseRfc3339(j.due_date[2]))]

\* #[derive(Serialize)] for TodoList: serde_json::to_string_pretty
ToJsonFreshCounter(todo_list) ==
    <<JObj([tasks |-> [i \in 1..Len(todo_list.tasks) |-> TaskToJson(todo_list.tasks[i])],
            next_id |-> JNum(1)])>>
ToJson(todo_list) ==
    <<JObj([tasks |-> [i \in 1..Len(todo_list.tasks) |-> TaskToJson(todo_list.tasks[i])],
            next_id |-> JNum(todo_list.next_id)])>>

\* #[derive(Deserialize)] for TodoList: serde_json::from_str
FromJson(content) ==
    IF Len(Trim(content)) = 1 /\ Trim(content)[1][1] = "obj"
    THEN LET d == Trim(content)[1][2]
         IN OkList([tasks |-> [i \in 1..Len(d.tasks) |-> TaskFromJson(d.tasks[i])],
                    next_id |-> d.next_id[2]])
    ELSE Err(SerdeError)

\* The file at DEFAULT_FILE_PATH.
NoFile == [exists |-> FALSE, content |-> <<>>]
FileWith(content) == [exists |-> TRUE, content |-> content]

\* fs::write(path, json): the file is created or truncated, then the text is
\* written; either step may fail with an io::Error.  The file it leaves.
FsWriteOutcomes == {"written", "create failed", "write failed"}
fs_write_create_new(f, json, outcome) ==
    CASE outcome = "written" -> IF f.exists THEN f ELSE FileWith(json)
      [] outcome = "create failed" -> f
      [] outcome = "write failed" -> FileWith(<<Truncated>>)
fs_write(f, json, outcome) ==
    CASE outcome = "written" -> FileWith(json)
      [] outcome = "create failed" -> f
      [] outcome = "write failed" -> FileWith(<<Truncated>>)

\* load_from_file, for a read that succeeds.
load_from_file_no_trim(f) ==
    IF ~f.exists THEN OkList(TodoList_new)
    ELSE IF f.content = <<>> THEN OkList(TodoList_new)
    ELSE FromJson(f.content)
load_from_file(f) ==
    IF ~f.exists THEN OkList(TodoList_new)
    ELSE IF Trim(f.content) = <<>> THEN OkList(TodoList_new)
    ELSE FromJson(f.content)

\* ------------------------------------------------------------ main.rs
\* error.rs, TodoError::InvalidPriority(String), TodoError::InvalidDateFormat(String)
InvalidPriority(text) == [kind |-> "InvalidPriority", text |-> text, id |-> 0]
InvalidDateFormat(text) == [kind |-> "InvalidDateFormat", text |-> text, id |-> 0]

\* str::to_lowercase, on the priority strings the model passes.
to_lowercase(str) ==
    CASE str = "H" -> "h"
      [] str = "High" -> "high"
      [] OTHER -> str

\* Priority::from_str: the priority, None when the string names none.
Priority_from_str(str) ==
    LET lower == to_lowercase(str)
    IN CASE lower \in {"high", "h"} -> Some("High")
         [] lower \in {"medium", "m"} -> Some("Medium")
         [] lower \in {"low", "l"} -> Some("Low")
         [] OTHER -> None

\* parse_date: a string of the form %Y-%m-%d is the instant 23:59:59 UTC of
\* that day, None for any other string.  The days the model names end at the
\* instants of Instants.
parse_date(date_str) ==
    CASE date_str = "1970-01-01" -> Some(0)
      [] date_str = "1970-01-02" -> Some(1)
      [] OTHER -> None

\* What a handler leaves when it returns or reaches its save_to_file call: the
\* list, the result so far, whether save_to_file is called next, and the id
\* of the task it dealt with.
Handled(self, ret, save, id) == [self |-> self, ret |-> ret, save |-> save, id |-> id]

\* handle_add, up to its call of save_to_file.
handle_add_unsaved(self, title, priority_str, due_str, clock) ==
    LET priority == Priority_from_str(priority_str)
        due == IF IsSome(due_str) THEN parse_date(Unwrap(due_str)) ELSE None
    IN IF priority = None
       THEN Handled(self, Err(InvalidPriority(priority_str)), FALSE, 0)
       ELSE IF IsSome(due_str) /\ due = None
       THEN Handled(self, Err(InvalidDateFormat(Unwrap(due_str))), FALSE, 0)
       ELSE LET r == add_task(self, title, Unwrap(priority), due, clock)
            IN Handled(r.self, OkUnit, FALSE, r.ret)
handle_add(self, title, priority_str, due_str, clock) ==
    LET priority == Priority_from_str(priority_str)
        due == IF IsSome(due_str) THEN parse_date(Unwrap(due_str)) ELSE None
    IN IF priority = None
       THEN Handled(self, Err(InvalidPriority(priority_str)), FALSE, 0)
       ELSE IF IsSome(due_str) /\ due = None
       THEN Handled(self, Err(InvalidDateFormat(Unwrap(due_str))), FALSE, 0)
       ELSE LET r == add_task(self, title, Unwrap(priority), due, clock)
            IN Handled(r.self, OkUnit, TRUE, r.ret)

\* handle_complete, up to its call of save_to_file.  `?` hands the String
\* error of complete_task on (error.rs has no From<String> for TodoError).
handle_complete_unchecked(self, id) ==
    LET r == complete_task(self, id)
    IN IF IsErr(r.ret)
       THEN Handled(r.self, r.ret, FALSE, id)
       ELSE Handled(r.self, OkUnit, TRUE, id)
handle_complete(self, id) ==
    LET found == find_task(self, id)
    IN IF IsSome(found) /\ Unwrap(found).completed
       THEN Handled(self, OkUnit, FALSE, id)
       ELSE LET r == complete_task(self, id)
            IN IF IsErr(r.ret)
               THEN Handled(r.self, r.ret, FALSE, id)
               ELSE Handled(r.self, OkUnit, TRUE, id)

\* handle_delete, up to its call of save_to_file.
handle_delete_unchecked(self, id) ==
    Handled(delete_task(self, id).self, OkUnit, TRUE, id)
handle_delete(self, id) ==
    IF find_task(self, id) = None
    THEN Handled(self, Err(TaskNotFound(id)), FALSE, id)
    ELSE LET r == delete_task(self, id)
         IN IF IsErr(r.ret)
            THEN Handled(r.self, r.ret, FALSE, id)
            ELSE Handled(r.self, OkUnit, TRUE, id)

\* handle_show
handle_show(self, id) ==
    IF find_task(self, id) = None
    THEN Handled(self, Err(TaskNotFound(id)), FALSE, id)
    ELSE Handled(self, OkUnit, FALSE, id)

\* handle_list: it prints the view the filter names and the statistics, and
\* returns; it takes the list by shared reference.
ListFilters == {"All", "Pending", "Completed", "Overdue"}
handle_list(self, filter, clock) == Handled(self, OkUnit, FALSE, 0)

\* input.trim().eq_ignore_ascii_case("y"), on the lines the model answers.
Answers == {"y\n", " Y \n", "n\n", "\n", "yes\n"}
trim(input) ==
    CASE input = "y\n" -> "y"
      [] input = " Y \n" -> "Y"
      [] input = "n\n" -> "n"
      [] input = "\n" -> ""
      [] input = "yes\n" -> "yes"
      [] OTHER -> input
eq_ignore_ascii_case_y(str) == str \in {"y", "Y"}

\* for id in &ids_to_delete { todo_list.delete_task(*id)?; }
RECURSIVE delete_each(_, _)
delete_each(self, ids) ==
    IF ids = <<>> THEN [self |-> self, ret |-> OkUnit]
    ELSE LET r == delete_task(self, Head(ids))
         IN IF IsErr(r.ret) THEN r ELSE delete_each(r.self, Tail(ids))

\* handle_clear, up to its call of save_to_file.
handle_clear_first(self, force, input) ==
    LET completed_tasks == list_completed_tasks(self)
    IN IF completed_tasks = <<>>
       THEN Handled(self, OkUnit, FALSE, 0)
       ELSE IF ~force /\ ~eq_ignore_ascii_case_y(trim(input))
       THEN Handled(self, OkUnit, FALSE, 0)
       ELSE Handled(delete_task(self, completed_tasks[1].id).self, OkUnit, TRUE, 0)
handle_clear(self, force, input) ==
    LET completed_tasks == list_completed_tasks(self)
        ids_to_delete == [i \in 1..Len(completed_tasks) |-> completed_tasks[i].id]
    IN IF completed_tasks = <<>>
       THEN Handled(self, OkUnit, FALSE, 0)
       ELSE IF ~force /\ ~eq_ignore_ascii_case_y(trim(input))
       THEN Handled(self, OkUnit, FALSE, 0)
       ELSE LET r == delete_each(self, ids_to_delete)
            IN IF IsErr(r.ret)
               THEN Handled(r.self, r.ret, FALSE, 0)
               ELSE Handled(r.self, OkUnit, TRUE, 0)

\* ------------------------------------------------------------- state
VARIABLES
    todo_list,  \* the TodoList the caller holds
    file,       \* the file at DEFAULT_FILE_PATH
    now,        \* Utc::now()
    last,       \* the last call: op, its id argument, find_task(id) before it, its result
    hist,       \* history of todo_list: how it was made, ids issued, deleted, completed
    fileHist,   \* history of the collection the file holds
    procs       \* the invocations of the command-line tool (main.rs), one per slot

vars == <<todo_list, file, now, last, hist, fileHist, procs>>

Call(op, id, ret) == [op |-> op, id |-> id, found |-> find_task(todo_list, id), ret |-> ret]

\* fresh: made by TodoList::new(); issued: the ids add_task returned on this
\* instance, in order; deleted, done: the ids delete_task removed and the ids
\* of the tasks in the list that complete_task completed, over the whole life
\* of the collection (through the file); carried: the deleted ids a load
\* brought with it.
NewHist == [fresh |-> TRUE, issued |-> <<>>, deleted |-> {}, done |-> {}, carried |-> {}]
NoFileHist == [deleted |-> {}, done |-> {}]

Init ==
    /\ todo_list = TodoList_new
    /\ file = NoFile
    /\ now = 0
    /\ last = [op |-> "new", id |-> 0, found |-> None, ret |-> OkUnit]
    /\ hist = NewHist
    /\ fileHist = NoFileHist
    /\ procs = <<>>

\* ----------------------------------------------------------- actions
AddTaskOf(inputs) ==
    /\ todo_list.next_id <= MaxId
    /\ \E input \in inputs :
         LET r == add_task(todo_list, input[1], input[2], input[3], now)
         IN /\ todo_list' = r.self
            /\ last' = Call("add_task", r.ret, OkId(r.ret))
            /\ hist' = [hist EXCEPT !.issued = Append(@, r.ret)]
    /\ UNCHANGED <<file, now, fileHist, procs>>

AddTask == AddTaskOf(AddInputs)
AddStoredTask == AddTaskOf(StoredInputs)
AddRoundTripTask == todo_list.next_id <= MaxRoundTripId /\ AddTaskOf(RoundTripInputs)

CompleteTask ==
    /\ \E id \in Ids :
         LET r == complete_task(todo_list, id)
         IN /\ todo_list' = r.self
            /\ last' = Call("complete_task", id, r.ret)
            /\ hist' = IF IsOk(r.ret) THEN [hist EXCEPT !.done = @ \cup {id}] ELSE hist
    /\ UNCHANGED <<file, now, fileHist, procs>>

DeleteTask ==
    /\ \E id \in Ids :
         LET r == delete_task(todo_list, id)
         IN /\ todo_list' = r.self
            /\ last' = Call("delete_task", id, r.ret)
            /\ hist' = IF IsOk(r.ret)
                       THEN [hist EXCEPT !.deleted = @ \cup {id}, !.done = @ \ {id}]
                       ELSE hist
    /\ UNCHANGED <<file, now, fileHist, procs>>

Query(op, id, value) ==
    /\ last' = Call(op, id, OkTasks(value))
    /\ UNCHANGED <<todo_list, file, now, hist, fileHist, procs>>

ListPendingTasks == Query("list_pending_tasks", 0, list_pending_tasks(todo_list))
ListCompletedTasks == Query("list_completed_tasks", 0, list_completed_tasks(todo_list))
TasksByPriority == Query("tasks_by_priority", 0, tasks_by_priority(todo_list))
OverdueTasks == Query("overdue_tasks", 0, overdue_tasks(todo_list, now))

\* save_to_file: fs::write creates (truncates) the file, then writes the text.
\* Either step may fail with an io::Error.
SaveToFile ==
    /\ \E outcome \in FsWriteOutcomes :
         /\ file' = fs_write(file, ToJson(todo_list), outcome)
         /\ fileHist' = CASE outcome = "written" ->
                               [deleted |-> hist.deleted, done |-> hist.done]
                          [] outcome = "create failed" -> fileHist
                          [] outcome = "write failed" -> NoFileHist
         /\ last' = Call("save_to_file", 0,
                         IF outcome = "written" THEN OkUnit ELSE Err(IoError))
    /\ UNCHANGED <<todo_list, now, hist, procs>>

\* load_from_file: the caller takes the returned list in place of the one it held.
LoadFromFile ==
    /\ \E read_ok \in BOOLEAN :
         LET r == IF file.exists /\ ~read_ok THEN Err(IoError) ELSE load_from_file(file)
         IN /\ last' = Call("load_from_file", 0, r)
            /\ IF IsOk(r)
               THEN /\ todo_list' = r.list
                    /\ hist' = IF file.exists /\ Trim(file.content) # <<>>
                               THEN [fresh |-> FALSE, issued |-> <<>>,
                                     deleted |-> fileHist.deleted, done |-> fileHist.done,
                                     carried |-> fileHist.deleted]
                               ELSE NewHist
               ELSE UNCHANGED <<todo_list, hist>>
    /\ UNCHANGED <<file, now, fileHist, procs>>

\* Time passes.
Tick ==
    /\ now + 1 \in Instants
    /\ now' = now + 1
    /\ UNCHANGED <<todo_list, file, last, hist, fileHist, procs>>

\* The in-memory collection: every operation of TodoList, as time passes.
Next ==
    \/ AddTask
    \/ CompleteTask
    \/ DeleteTask
    \/ ListPendingTasks
    \/ ListCompletedTasks
    \/ TasksByPriority
    \/ Tick

Spec == Init /\ [][Next]_vars

\* The in-memory collection and its due dates: the mutating operations and
\* overdue_tasks, as time passes.
NextOverdue ==
    \/ AddTask
    \/ CompleteTask
    \/ DeleteTask
    \/ OverdueTasks
    \/ Tick

SpecOverdue == Init /\ [][NextOverdue]_vars

\* The collection and its file: the mutating operations, save and load, from
\* a file that is absent or empty, at one reading of the clock.
InitStore ==
    /\ todo_list = TodoList_new
    /\ file \in {NoFile, FileWith(<<>>)}
    /\ now \in Instants
    /\ last = [op |-> "new", id |-> 0, found |-> None, ret |-> OkUnit]
    /\ hist = NewHist
    /\ fileHist = NoFileHist
    /\ procs = <<>>

NextStore ==
    \/ AddStoredTask
    \/ CompleteTask
    \/ DeleteTask
    \/ SaveToFile
    \/ LoadFromFile

SpecStore == InitStore /\ [][NextStore]_vars

\* The collection and its file, with tasks that have and tasks that lack a due
\* date, from a new list and no file.
NextRoundTrip ==
    \/ AddRoundTripTask
    \/ CompleteTask
    \/ DeleteTask
    \/ SaveToFile
    \/ LoadFromFile

SpecRoundTrip == Init /\ [][NextRoundTrip]_vars

\* A file that is absent, empty or blank and is never written: the collection
\* is changed in memory and loaded again.
BlankFiles == {NoFile, FileWith(<<>>), FileWith(<<Whitespace>>),
               FileWith(<<Whitespace, Whitespace>>)}

InitBlank ==
    /\ todo_list = TodoList_new
    /\ file \in BlankFiles
    /\ now \in Instants
    /\ last = [op |-> "new", id |-> 0, found |-> None, ret |-> OkUnit]
    /\ hist = NewHist
    /\ fileHist = NoFileHist
    /\ procs = <<>>

NextBlank ==
    \/ AddStoredTask
    \/ CompleteTask
    \/ DeleteTask
    \/ LoadFromFile

SpecBlank == InitBlank /\ [][NextBlank]_vars

\* ------------------------------------------------ the command line
\* The arguments of `add`: title, --priority, --due.
CliAddInputs ==
    {<<"a", "l", None>>, <<"b", "H", Some("1970-01-01")>>,
     <<"c", "urgent", None>>, <<"d", "m", Some("12/31/1970")>>}

\* An invocation of the tool: where it is in run (pc: "run" before
\* load_from_file, "match" before the handler, "save" before the handler's
\* save_to_file, "exit" when run has returned), the command, its arguments
\* and the id it dealt with, the list it holds, the result of run, and for the
\* record: the
\* number of save_to_file calls it made, the file it found when it started, the
\* list the invocation before it held when it returned Ok, and the number its
\* write has among the writes to the file.
StartProc(f, prev) ==
    [pc |-> "run", cmd |-> "", args |-> <<>>, id |-> 0, todo_list |-> NoList, ret |-> OkUnit,
     saves |-> 0, before |-> f, prev |-> prev, wrote |-> 0]

Writes == Len(SelectSeq(procs, LAMBDA proc : proc.wrote > 0))

\* The step of slot p leaves proc in it; nothing but the file changes besides.
ProcStep(p, proc) ==
    /\ procs' = [procs EXCEPT ![p] = proc]
    /\ UNCHANGED <<todo_list, now, last, hist, fileHist>>

\* run: let mut todo_list = load_from_file(DEFAULT_FILE_PATH)?;
RunLoad ==
    \E p \in DOMAIN procs : \E read_ok \in BOOLEAN :
        LET r == IF file.exists /\ ~read_ok THEN Err(IoError) ELSE load_from_file(file)
        IN /\ procs[p].pc = "run"
           /\ ProcStep(p, IF IsOk(r)
                          THEN [procs[p] EXCEPT !.pc = "match", !.todo_list = r.list]
                          ELSE [procs[p] EXCEPT !.pc = "exit", !.ret = r])
           /\ UNCHANGED file

\* run: the arm of the match for the command; the handler runs up to its
\* save_to_file call, or returns.
Handle(p, cmd, args, h) ==
    /\ procs[p].pc = "match"
    /\ ProcStep(p, [procs[p] EXCEPT !.pc = IF h.save THEN "save" ELSE "exit",
                                    !.cmd = cmd, !.args = args, !.id = h.id,
                                    !.todo_list = h.self, !.ret = h.ret])
    /\ UNCHANGED file

HandleAdd ==
    \E p \in DOMAIN procs : \E input \in CliAddInputs :
        /\ procs[p].todo_list.next_id <= MaxId
        /\ Handle(p, "add", input, handle_add(procs[p].todo_list, input[1], input[2], input[3], now))

HandleList ==
    \E p \in DOMAIN procs : \E filter \in ListFilters :
        Handle(p, "list", <<filter>>, handle_list(procs[p].todo_list, filter, now))

HandleComplete ==
    \E p \in DOMAIN procs : \E id \in Ids :
        Handle(p, "complete", <<id>>, handle_complete(procs[p].todo_list, id))

HandleDelete ==
    \E p \in DOMAIN procs : \E id \in Ids :
        Handle(p, "delete", <<id>>, handle_delete(procs[p].todo_list, id))

HandleShow ==
    \E p \in DOMAIN procs : \E id \in Ids :
        Handle(p, "show", <<id>>, handle_show(procs[p].todo_list, id))

HandleClear ==
    \E p \in DOMAIN procs : \E force \in BOOLEAN : \E input \in Answers :
        Handle(p, "clear", <<force, input>>, handle_clear(procs[p].todo_list, force, input))

\* The handler's save_to_file(todo_list, DEFAULT_FILE_PATH)?; what follows it
\* in the handler prints and returns Ok(()).
HandleSave ==
    \E p \in DOMAIN procs : \E outcome \in FsWriteOutcomes :
        /\ procs[p].pc = "save"
        /\ file' = fs_write(file, ToJson(procs[p].todo_list), outcome)
        /\ ProcStep(p, [procs[p] EXCEPT
                           !.pc = "exit",
                           !.ret = IF outcome = "written" THEN OkUnit ELSE Err(IoError),
                           !.saves = @ + 1,
                           !.wrote = IF outcome = "create failed" THEN 0 ELSE Writes + 1])

\* The process has exited; the user runs the tool again.
Invoke ==
    \E p \in DOMAIN procs :
        /\ procs[p].pc = "exit"
        /\ ProcStep(p, StartProc(file, IF IsOk(procs[p].ret)
                                       THEN Some(procs[p].todo_list)
                                       ELSE None))
        /\ UNCHANGED file

\* One invocation at a time, each after the one before has exited, from the
\* first run on (no file yet).
InitCli ==
    /\ todo_list = TodoList_new
    /\ file = NoFile
    /\ now = 0
    /\ last = [op |-> "new", id |-> 0, found |-> None, ret |-> OkUnit]
    /\ hist = NewHist
    /\ fileHist = NoFileHist
    /\ procs = <<StartProc(NoFile, None)>>

NextCli ==
    \/ RunLoad
    \/ HandleAdd
    \/ HandleList
    \/ HandleComplete
    \/ HandleDelete
    \/ HandleShow
    \/ HandleClear
    \/ HandleSave
    \/ Invoke

SpecCli == InitCli /\ [][NextCli]_vars

\* A list the tool has written before: two tasks, the first completed.
SeedList ==
    LET l1 == add_task(TodoList_new, "a", "Low", None, 0).self
        l2 == add_task(l1, "b", "High", Some(0), 0).self
    IN complete_task(l2, 1).self

RaceFiles == {NoFile, FileWith(ToJson(SeedList))}

\* Two invocations at the same time on one file, each running one command:
\* their loads, handlers and saves interleave in any order.
InitRace ==
    /\ todo_list = TodoList_new
    /\ file \in RaceFiles
    /\ now = 0
    /\ last = [op |-> "new", id |-> 0, found |-> None, ret |-> OkUnit]
    /\ hist = NewHist
    /\ fileHist = NoFileHist
    /\ procs = <<StartProc(file, None), StartProc(file, None)>>

NextRace ==
    \/ RunLoad
    \/ HandleAdd
    \/ HandleList
    \/ HandleComplete
    \/ HandleDelete
    \/ HandleShow
    \/ HandleClear
    \/ HandleSave

SpecRace == InitRace /\ [][NextRace]_vars

\* ------------------------------------------------------------ claims
Tasks == todo_list.tasks
Present(id) == IsSome(find_task(todo_list, id))

\* C1: on one TodoList instance the ids add_task returns are strictly
\* increasing (so no two are equal), whatever complete_task and delete_task
\* calls come between; on a list made by TodoList::new() the first add returns
\* 1 and the second 2.
C1_AddIdsIncrease ==
    /\ \A i \in 1..Len(hist.issued) : \A j \in 1..Len(hist.issued) :
         i < j => hist.issued[i] < hist.issued[j]
    /\ hist.fresh /\ Len(hist.issued) >= 1 => hist.issued[1] = 1
    /\ hist.fresh /\ Len(hist.issued) >= 2 => hist.issued[2] = 2
    /\ last.op = "add_task" => last.ret = OkId(hist.issued[Len(hist.issued)])

\* Three adds on a fresh list with a delete before the last of them.
C1_Witness ==
    /\ last.op = "add_task"
    /\ hist.fresh
    /\ Len(hist.issued) = 3
    /\ hist.deleted # {}

\* C2: in every reachable state, of a list made by TodoList::new() or loaded
\* from the file, the task ids are pairwise distinct and next_id is greater than
\* every one of them.
C2_IdsUniqueBelowNextId ==
    /\ \A i \in 1..Len(Tasks) : \A j \in 1..Len(Tasks) :
         i # j => Tasks[i].id # Tasks[j].id
    /\ \A i \in 1..Len(Tasks) : Tasks[i].id < todo_list.next_id

\* A list loaded from the file with a task in it, one task deleted since, and a
\* task added after the load.
C2_Witness ==
    /\ ~hist.fresh
    /\ Len(hist.issued) >= 1
    /\ Len(Tasks) >= 2
    /\ hist.deleted # {}

\* C3: once delete_task(id) has succeeded, no later add_task returns id, also
\* when the deleted task had the highest id and when the list was saved and
\* loaded in between.
C3_NoIdReuse ==
    /\ last.op = "add_task" => last.id \notin hist.deleted
    /\ \A id \in hist.deleted : id < todo_list.next_id /\ ~Present(id)

\* The first add after a load returns the id that follows a deleted one, the
\* delete having been saved to the file the load read.
C3_Witness ==
    /\ last.op = "add_task"
    /\ Len(hist.issued) = 1
    /\ (last.id - 1) \in hist.carried

\* The call of this step was made with an id that no task of the list has.
AbsentIdCall ==
    /\ CompleteTask \/ DeleteTask
    /\ last'.found = None

\* C4: complete_task(id) and delete_task(id) with an id that was never issued,
\* or whose task was deleted, fail with the error TaskNotFound(id) carrying
\* that id.
C4_FailsWithTaskNotFound ==
    (last.op \in {"complete_task", "delete_task"} /\ last.found = None)
        => last.ret = Err(TaskNotFound(last.id))

\* C4, the rest of it: complete_task(id) and delete_task(id) with such an id
\* fail, with the String error "Task with id {id} not found" naming that id,
\* and leave the task sequence, every task's fields and next_id unchanged.
C4_FailsWithMessageUnchanged ==
    [][AbsentIdCall =>
          /\ last'.ret = Err(NotFoundMessage(last'.id))
          /\ todo_list' = todo_list]_vars

\* delete_task fails on the id of a task deleted before, other tasks being
\* in the list.
C4_Witness ==
    /\ last.op = "delete_task"
    /\ IsErr(last.ret)
    /\ last.id \in hist.deleted
    /\ Tasks # <<>>

\* C5: for an id in the list, delete_task(id) succeeds, after it find_task(id)
\* is None and len() is one less; complete_task(id) succeeds and after it
\* find_task(id) is a task with completed = true.
C5_DeleteThenFindCompleteThenFind ==
    [][/\ (DeleteTask /\ IsSome(last'.found)) =>
            /\ IsOk(last'.ret)
            /\ find_task(todo_list', last'.id) = None
            /\ len(todo_list') = len(todo_list) - 1
       /\ (CompleteTask /\ IsSome(last'.found)) =>
            /\ IsOk(last'.ret)
            /\ IsSome(find_task(todo_list', last'.id))
            /\ Unwrap(find_task(todo_list', last'.id)).completed]_vars

\* A task of a list of three was deleted.
C5_Witness ==
    /\ last.op = "delete_task"
    /\ IsOk(last.ret)
    /\ IsSome(last.found)
    /\ len(todo_list) = 2
    /\ find_task(todo_list, last.id) = None

\* C6: a task is added with completed = false, only a complete_task on its id
\* that succeeds makes it completed, and from then on it is completed as long
\* as it is in the list, whatever add_task, complete_task and delete_task calls
\* follow and through save_to_file and load_from_file: in every state the
\* completed tasks are those whose id a complete_task that succeeded was given.
C6_CompletedOneWay ==
    /\ \A i \in 1..Len(Tasks) : Tasks[i].completed <=> Tasks[i].id \in hist.done
    /\ last.op = "add_task" => ~Tasks[Len(Tasks)].completed

\* A completed task went through the file, and a pending task added after the
\* load stands beside it.
C6_Witness ==
    /\ ~hist.fresh
    /\ last.op = "add_task"
    /\ Len(Tasks) >= 2
    /\ Tasks[1].completed
    /\ ~Tasks[Len(Tasks)].completed

\* C7: complete_task(id) on a task that is completed returns Ok(()) and leaves
\* the list as it is, so completing twice gives the state completing once gives.
C7_CompleteIdempotent ==
    [][(CompleteTask /\ IsSome(last'.found) /\ Unwrap(last'.found).completed) =>
          /\ last'.ret = OkUnit
          /\ todo_list' = todo_list]_vars

\* complete_task returned Ok on a task that was completed before the call.
C7_Witness ==
    /\ last.op = "complete_task"
    /\ IsSome(last.found)
    /\ Unwrap(last.found).completed
    /\ IsOk(last.ret)

\* C8: a delete_task(id) that succeeds removes the one task with that id: the
\* other tasks stay, each with all its fields, in the same order, and next_id
\* stays.
C8_DeleteFrame ==
    [][(DeleteTask /\ IsOk(last'.ret)) =>
          /\ todo_list'.next_id = todo_list.next_id
          /\ \E k \in 1..Len(Tasks) :
               /\ Tasks[k].id = last'.id
               /\ todo_list'.tasks =
                    SubSeq(Tasks, 1, k - 1) \o SubSeq(Tasks, k + 1, Len(Tasks))]_vars

\* The second of three tasks was deleted: the first and the third remain.
C8_Witness ==
    /\ last.op = "delete_task"
    /\ IsOk(last.ret)
    /\ last.id = 2
    /\ Len(Tasks) = 2
    /\ Tasks[1].id = 1
    /\ Tasks[2].id = 3

\* The position in the list of the task with the id, 0 if there is none.
PositionOf(id) == FirstIndex(Tasks, id)

\* view holds tasks of the list, in the order the list has them.
InInsertionOrder(view) ==
    /\ \A i \in 1..Len(view) :
         PositionOf(view[i].id) # 0 /\ Tasks[PositionOf(view[i].id)] = view[i]
    /\ \A i \in 1..Len(view) : \A j \in 1..Len(view) :
         i < j => PositionOf(view[i].id) < PositionOf(view[j].id)

\* C9: list_pending_tasks() holds the tasks of list_tasks() with completed =
\* false and list_completed_tasks() those with completed = true, each in
\* insertion order; every task is in exactly one of them and their lengths add
\* up to len(); neither query changes the collection.
C9_Partition ==
    LET pending == list_pending_tasks(todo_list)
        completed == list_completed_tasks(todo_list)
        all == list_tasks(todo_list)
    IN /\ InInsertionOrder(pending)
       /\ InInsertionOrder(completed)
       /\ \A i \in 1..Len(pending) : ~pending[i].completed
       /\ \A i \in 1..Len(completed) : completed[i].completed
       /\ \A k \in 1..Len(all) :
            IF all[k].completed
            THEN /\ \E i \in 1..Len(completed) : completed[i] = all[k]
                 /\ \A i \in 1..Len(pending) : pending[i] # all[k]
            ELSE /\ \E i \in 1..Len(pending) : pending[i] = all[k]
                 /\ \A i \in 1..Len(completed) : completed[i] # all[k]
       /\ Len(pending) + Len(completed) = len(todo_list)

C9_PendingAndCompleted ==
    /\ []C9_Partition
    /\ [][/\ ListPendingTasks =>
               todo_list' = todo_list /\ last'.ret = OkTasks(list_pending_tasks(todo_list))
          /\ ListCompletedTasks =>
               todo_list' = todo_list /\ last'.ret = OkTasks(list_completed_tasks(todo_list))]_vars

\* list_pending_tasks returned the first and the third of three tasks, the
\* second being completed.
C9_Witness ==
    /\ last.op = "list_pending_tasks"
    /\ Len(Tasks) = 3
    /\ Tasks[2].completed
    /\ Len(last.ret.tasks) = 2
    /\ last.ret.tasks[1] = Tasks[1]
    /\ last.ret.tasks[2] = Tasks[3]

\* The list of the example: T1(Low), T2(High), T3(Medium), T4(High).
ExampleList ==
    LET l1 == add_task(TodoList_new, "T1", "Low", None, 0).self
        l2 == add_task(l1, "T2", "High", None, 0).self
        l3 == add_task(l2, "T3", "Medium", None, 0).self
    IN add_task(l3, "T4", "High", None, 0).self

\* C10: tasks_by_priority() is a permutation of the tasks of the list, ordered
\* by the rank High(0) < Medium(1) < Low(2), and stable: tasks of equal
\* priority keep their insertion order; T1(Low), T2(High), T3(Medium),
\* T4(High) gives [T2, T4, T3, T1]; the call leaves the list as it is.
C10_Sorted ==
    LET sorted == tasks_by_priority(todo_list)
        rank(p) == CASE p = "High" -> 0 [] p = "Medium" -> 1 [] p = "Low" -> 2
    IN /\ Len(sorted) = Len(Tasks)
       /\ \A k \in 1..Len(Tasks) : \E i \in 1..Len(sorted) : sorted[i] = Tasks[k]
       /\ \A i \in 1..Len(sorted) : \A j \in 1..Len(sorted) :
            i < j =>
              \/ rank(sorted[i].priority) < rank(sorted[j].priority)
              \/ /\ sorted[i].priority = sorted[j].priority
                 /\ PositionOf(sorted[i].id) < PositionOf(sorted[j].id)
       /\ [i \in 1..4 |-> tasks_by_priority(ExampleList)[i].id] = <<2, 4, 3, 1>>

C10_ByPriorityStable ==
    /\ []C10_Sorted
    /\ [][TasksByPriority =>
            todo_list' = todo_list /\ last'.ret = OkTasks(tasks_by_priority(todo_list))]_vars

\* tasks_by_priority returned [T2, T3, T1] for T1(Low), T2(High), T3(High).
C10_Witness ==
    /\ last.op = "tasks_by_priority"
    /\ Len(Tasks) = 3
    /\ Tasks[1].priority = "Low"
    /\ Tasks[2].priority = "High"
    /\ Tasks[3].priority = "High"
    /\ last.ret.tasks = <<Tasks[2], Tasks[3], Tasks[1]>>

\* C11: at any time now, overdue_tasks() holds exactly the tasks whose
\* due_date is set and strictly before now and whose completed flag is false,
\* in insertion order: a task with no due_date is never in it, a task whose
\* due_date is now or later is not in it, and a task in it is no longer in it
\* once complete_task on it has succeeded; the call leaves the list as it is.
C11_OverdueRule ==
    LET overdue == overdue_tasks(todo_list, now)
    IN /\ InInsertionOrder(overdue)
       /\ \A k \in 1..Len(Tasks) :
            (\E i \in 1..Len(overdue) : overdue[i] = Tasks[k])
                <=> /\ Tasks[k].due_date # None
                    /\ Tasks[k].due_date[1] < now
                    /\ Tasks[k].completed = FALSE

C11_Overdue ==
    /\ []C11_OverdueRule
    /\ [][/\ OverdueTasks =>
               todo_list' = todo_list /\ last'.ret = OkTasks(overdue_tasks(todo_list, now))
          /\ (CompleteTask /\ IsOk(last'.ret)) =>
               \A i \in 1..Len(overdue_tasks(todo_list', now')) :
                   overdue_tasks(todo_list', now')[i].id # last'.id]_vars

\* overdue_tasks returned one task of three: of two tasks due at 0 the one
\* that is completed is left out, and so is the task that is due now.
C11_Witness ==
    /\ last.op = "overdue_tasks"
    /\ now = 1
    /\ Len(Tasks) = 3
    /\ Tasks[1].due_date = Some(0) /\ Tasks[1].completed
    /\ Tasks[2].due_date = Some(0) /\ ~Tasks[2].completed
    /\ Tasks[3].due_date = Some(1) /\ ~Tasks[3].completed
    /\ last.ret.tasks = <<Tasks[2]>>

\* C12: a save_to_file of the collection C that succeeds leaves a file that
\* loads as C, whatever the file held before, and the load_from_file that
\* follows it returns C whenever its read succeeds: the same tasks in the same
\* order, each with the same id, title, completed, priority, created_at and
\* due_date, and the same next_id.
C12_RoundTrip ==
    [][/\ (SaveToFile /\ IsOk(last'.ret)) =>
            /\ file'.exists
            /\ load_from_file(file') = OkList(todo_list)
       /\ (LoadFromFile /\ last.op = "save_to_file" /\ IsOk(last.ret)) =>
            /\ last'.ret \in {OkList(todo_list), Err(IoError)}
            /\ IsOk(last'.ret) =>
                 /\ Len(todo_list'.tasks) = Len(Tasks)
                 /\ \A i \in 1..Len(Tasks) :
                      /\ todo_list'.tasks[i].id = Tasks[i].id
                      /\ todo_list'.tasks[i].title = Tasks[i].title
                      /\ todo_list'.tasks[i].completed = Tasks[i].completed
                      /\ todo_list'.tasks[i].priority = Tasks[i].priority
                      /\ todo_list'.tasks[i].created_at = Tasks[i].created_at
                      /\ todo_list'.tasks[i].due_date = Tasks[i].due_date
                 /\ todo_list'.next_id = todo_list.next_id]_vars

\* A load returned the list that was saved: a completed task without a due
\* date and a pending task with one, a task having been deleted before.
C12_Witness ==
    /\ last.op = "load_from_file"
    /\ IsOk(last.ret)
    /\ last.ret.list = todo_list
    /\ Len(Tasks) = 2
    /\ Tasks[1].due_date = None /\ Tasks[1].completed
    /\ Tasks[2].due_date = Some(1) /\ ~Tasks[2].completed
    /\ file = FileWith(ToJson(todo_list))

\* C13: load_from_file on a path where there is no file, or on a file whose
\* text is empty or whitespace only, returns Ok with the collection of
\* TodoList::new() (no tasks, next_id = 1), whatever list the caller held; it
\* returns no error other than the I/O error of a read of the existing file
\* that fails, and never a parse error; the file is not created or changed.
C13_LoadBlankIsNew ==
    [][(LoadFromFile /\ file \in BlankFiles) =>
          /\ file' = file
          /\ \/ /\ last'.ret = OkList([tasks |-> <<>>, next_id |-> 1])
                /\ todo_list' = [tasks |-> <<>>, next_id |-> 1]
             \/ /\ file.exists
                /\ last'.ret = Err(IoError)]_vars

\* A load of a file of whitespace returned the new collection.
C13_Witness ==
    /\ last.op = "load_from_file"
    /\ file = FileWith(<<Whitespace>>)
    /\ last.ret = OkList(TodoList_new)
    /\ Tasks = <<>>
    /\ todo_list.next_id = 1

\* The tasks of the collection the file holds (none if it does not parse).
FileTasks == load_from_file(file).list.tasks

\* C14: of two invocations running at the same time on one file, whichever
\* wrote the file last wins: the file is the collection that one held, whole,
\* with nothing of the other's merged in (or a truncated text when that write
\* failed), and nothing but a handler's save_to_file changes the file.  So
\* there are interleavings in which the task the other added is lost and in
\* which both issue the same id for different tasks.
C14_LastWriter ==
    \A p \in DOMAIN procs :
        (procs[p].wrote > 0 /\ procs[p].wrote = Writes) =>
            IF IsOk(procs[p].ret)
            THEN /\ file.exists
                 /\ load_from_file(file) = OkList(procs[p].todo_list)
            ELSE file = FileWith(<<Truncated>>)

C14_LastWriterWins ==
    /\ []C14_LastWriter
    /\ [][file' # file => HandleSave]_vars

\* Both invocations added a task and returned Ok; they issued the same id for
\* tasks of different titles, and the file holds the task of the second to
\* write and not the task of the first.
C14_Witness ==
    /\ Len(procs) = 2
    /\ \A p \in {1, 2} : procs[p].cmd = "add" /\ procs[p].pc = "exit" /\ IsOk(procs[p].ret)
    /\ procs[1].wrote = 1 /\ procs[2].wrote = 2
    /\ procs[1].id = procs[2].id
    /\ Unwrap(find_task(procs[1].todo_list, procs[1].id)).title = "a"
    /\ Unwrap(find_task(procs[2].todo_list, procs[2].id)).title = "b"
    /\ Len(FileTasks) = 3
    /\ FileTasks[3].title = "b"

\* The collection invocation p loaded: the one its file held when it started
\* (with one invocation at a time the file is not written in between).
LoadedBy(p) == load_from_file(procs[p].before).list
\* The command of invocation p named an id no task of that collection has.
AbsentIn(p) == find_task(LoadedBy(p), procs[p].id) = None

\* C15: a command calls save_to_file at most once, and only when its handler
\* got as far as the call with no error.  When add fails with InvalidPriority
\* or InvalidDateFormat, when delete or show fails with TaskNotFound(id) and
\* when complete fails on an absent id (with the String error of
\* complete_task), save_to_file was not called and the file is the one the
\* command found.  When save_to_file fails the command returns that I/O error
\* after the one call, and the file does not hold the list the command made.
C15_SaveOnceAfterSuccess ==
    \A p \in DOMAIN procs :
        LET proc == procs[p]
        IN /\ proc.saves <= 1
           /\ proc.pc = "save" => (proc.saves = 0 /\ IsOk(proc.ret))
           /\ proc.saves = 1 => proc.pc = "exit"
           /\ (proc.pc = "exit" /\ IsErr(proc.ret) /\ proc.ret.err.kind \in
                   {"InvalidPriority", "InvalidDateFormat", "TaskNotFound", "String"}) =>
                 (proc.saves = 0 /\ file = proc.before)
           /\ (proc.cmd \in {"delete", "show"} /\ AbsentIn(p)) =>
                 /\ proc.pc = "exit"
                 /\ proc.ret = Err(TaskNotFound(proc.id))
                 /\ proc.saves = 0 /\ file = proc.before
           /\ (proc.cmd = "complete" /\ AbsentIn(p)) =>
                 /\ proc.pc = "exit"
                 /\ IsErr(proc.ret)
                 /\ proc.saves = 0 /\ file = proc.before
           /\ (proc.cmd = "add" /\ proc.args[2] = "urgent") =>
                 /\ proc.pc = "exit"
                 /\ proc.ret = Err(InvalidPriority("urgent"))
                 /\ proc.saves = 0 /\ file = proc.before
           /\ (proc.cmd = "add" /\ proc.args[2] # "urgent"
                   /\ proc.args[3] = Some("12/31/1970")) =>
                 /\ proc.pc = "exit"
                 /\ proc.ret = Err(InvalidDateFormat("12/31/1970"))
                 /\ proc.saves = 0 /\ file = proc.before
           /\ (proc.saves = 1 /\ IsErr(proc.ret)) =>
                 /\ proc.ret = Err(IoError)
                 /\ file \in {proc.before, FileWith(<<Truncated>>)}
                 /\ load_from_file(file) # OkList(proc.todo_list)

\* delete failed with TaskNotFound on a file that holds tasks: no save, and
\* the file is as it was.
C15_Witness ==
    /\ Len(procs) = 1
    /\ procs[1].pc = "exit"
    /\ procs[1].cmd = "delete"
    /\ procs[1].ret = Err(TaskNotFound(procs[1].id))
    /\ procs[1].saves = 0
    /\ file = procs[1].before
    /\ Len(FileTasks) >= 2

\* The task of the collection invocation p loaded that its command names.
NamedTask(p) == find_task(LoadedBy(p), procs[p].id)

\* C16: `complete` on a task that is completed returns Ok(()) with no call of
\* save_to_file: the list in memory and the file are as they were.  On a
\* pending task it completes that task and no other and goes on to save, and
\* when the save succeeds the file holds the list.  On an absent id it returns
\* an error, the list and the file being as they were.
C16_CompleteCommand ==
    \A p \in DOMAIN procs :
        LET proc == procs[p]
            loaded == LoadedBy(p)
        IN proc.cmd = "complete" =>
             IF NamedTask(p) = None
             THEN /\ proc.pc = "exit" /\ IsErr(proc.ret)
                  /\ proc.saves = 0 /\ file = proc.before
                  /\ proc.todo_list = loaded
             ELSE IF Unwrap(NamedTask(p)).completed
             THEN /\ proc.pc = "exit" /\ proc.ret = OkUnit
                  /\ proc.saves = 0 /\ file = proc.before
                  /\ proc.todo_list = loaded
             ELSE /\ proc.todo_list.next_id = loaded.next_id
                  /\ Len(proc.todo_list.tasks) = Len(loaded.tasks)
                  /\ \A i \in 1..Len(loaded.tasks) :
                       proc.todo_list.tasks[i] =
                           IF loaded.tasks[i].id = proc.id
                           THEN [loaded.tasks[i] EXCEPT !.completed = TRUE]
                           ELSE loaded.tasks[i]
                  /\ \/ proc.pc = "save" /\ proc.saves = 0 /\ file = proc.before
                     \/ /\ proc.pc = "exit" /\ proc.saves = 1
                        /\ IsOk(proc.ret) => load_from_file(file) = OkList(proc.todo_list)

\* `complete` returned Ok on a task that was completed, beside a pending one,
\* without a save.
C16_Witness ==
    /\ Len(procs) = 1
    /\ procs[1].pc = "exit"
    /\ procs[1].cmd = "complete"
    /\ procs[1].ret = OkUnit
    /\ procs[1].saves = 0
    /\ IsSome(NamedTask(1)) /\ Unwrap(NamedTask(1)).completed
    /\ Len(list_pending_tasks(procs[1].todo_list)) >= 1
    /\ file = procs[1].before

\* C17: `clear` with --force or the answer y (in either case, spaces around
\* it aside), on a collection that has completed tasks, removes the completed
\* tasks and no other: what is left are the tasks that were pending, each as
\* it was, in the order they had, next_id is as it was, list_completed_tasks()
\* is empty, and the handler goes on to save (the file then holds the list when
\* the save succeeds).  With no completed task, or with another answer and no
\* --force, the list and the file are as they were and no save is made.
C17_ClearCommand ==
    \A p \in DOMAIN procs :
        LET proc == procs[p]
            loaded == LoadedBy(p)
            left == proc.todo_list.tasks
            pending_at == {i \in 1..Len(loaded.tasks) : loaded.tasks[i].completed = FALSE}
            confirmed == proc.args[1] \/ proc.args[2] \in {"y\n", " Y \n"}
        IN proc.cmd = "clear" =>
             IF confirmed /\ Cardinality(pending_at) < Len(loaded.tasks)
             THEN /\ list_completed_tasks(proc.todo_list) = <<>>
                  /\ proc.todo_list.next_id = loaded.next_id
                  /\ Len(left) = Cardinality(pending_at)
                  /\ \A i \in pending_at :
                       \E k \in 1..Len(left) :
                           /\ left[k] = loaded.tasks[i]
                           /\ k = Cardinality({j \in pending_at : j <= i})
                  /\ \/ proc.pc = "save" /\ proc.saves = 0 /\ file = proc.before
                     \/ /\ proc.pc = "exit" /\ proc.saves = 1
                        /\ IsOk(proc.ret) => load_from_file(file) = OkList(proc.todo_list)
             ELSE /\ proc.pc = "exit" /\ proc.ret = OkUnit
                  /\ proc.todo_list = loaded
                  /\ proc.saves = 0 /\ file = proc.before

\* `clear`, answered " Y ", removed the two completed tasks of three and
\* saved the pending one that stood between them.
C17_Witness ==
    /\ Len(procs) = 1
    /\ procs[1].pc = "exit"
    /\ procs[1].cmd = "clear"
    /\ procs[1].args = <<FALSE, " Y \n">>
    /\ IsOk(procs[1].ret)
    /\ Len(LoadedBy(1).tasks) = 3
    /\ LoadedBy(1).tasks[1].completed
    /\ ~LoadedBy(1).tasks[2].completed
    /\ LoadedBy(1).tasks[3].completed
    /\ procs[1].todo_list.tasks = <<LoadedBy(1).tasks[2]>>
    /\ FileTasks = procs[1].todo_list.tasks

\* The command of invocation p, having returned Ok, changed the collection.
Mutated(p) ==
    /\ procs[p].pc = "exit"
    /\ IsOk(procs[p].ret)
    /\ \/ procs[p].cmd \in {"add", "delete"}
       \/ procs[p].cmd = "complete" /\ ~Unwrap(NamedTask(p)).completed
       \/ /\ procs[p].cmd = "clear"
          /\ procs[p].args[1] \/ procs[p].args[2] \in {"y\n", " Y \n"}
          /\ list_completed_tasks(LoadedBy(p)) # <<>>

\* C18: a command loads, then operates, then saves.  No handler has run
\* unless load_from_file returned Ok, and the handler starts on the list it
\* returned.  After add, delete, complete of a pending task and confirmed
\* clear that returned Ok, save_to_file was called and the file loads as the
\* list the command made, which is not the list it loaded.  The invocation
\* that follows one that returned Ok starts from the list that one held,
\* unless its read of the file fails.  list and show never write the file.
C18_LoadOperateSave ==
    \A p \in DOMAIN procs :
        LET proc == procs[p]
        IN /\ proc.pc = "run" => (proc.cmd = "" /\ proc.todo_list = NoList)
           /\ proc.cmd # "" => IsOk(load_from_file(proc.before))
           /\ proc.pc = "match" => proc.todo_list = LoadedBy(p)
           /\ Mutated(p) =>
                 /\ proc.saves = 1
                 /\ load_from_file(file) = OkList(proc.todo_list)
                 /\ proc.todo_list # LoadedBy(p)
           /\ (proc.pc = "exit" /\ IsOk(proc.ret)) =>
                 load_from_file(file) = OkList(proc.todo_list)
           /\ (IsSome(proc.prev) /\ proc.pc # "run") =>
                 \/ LoadedBy(p) = Unwrap(proc.prev) /\ (proc.pc = "match" => proc.todo_list = Unwrap(proc.prev))
                 \/ proc.cmd = "" /\ proc.pc = "exit" /\ proc.ret = Err(IoError)
           /\ proc.cmd \in {"list", "show"} =>
                 (proc.pc = "exit" /\ proc.saves = 0 /\ file = proc.before)

\* An invocation has loaded the two tasks, one of them completed, that the
\* invocation before it left.
C18_Witness ==
    /\ Len(procs) = 1
    /\ procs[1].pc = "match"
    /\ IsSome(procs[1].prev)
    /\ procs[1].todo_list = Unwrap(procs[1].prev)
    /\ Len(procs[1].todo_list.tasks) = 2
    /\ procs[1].todo_list.tasks[1].completed
    /\ ~procs[1].todo_list.tasks[2].completed

====
